---- MODULE Spec2Model ----
(***************************************************************************)
(* valixdrive: spot-check validation of the capacity a drive advertises.   *)
(*                                                                         *)
(* The model follows src/src/main.rs (main, read_blocks, write_blocks) and *)
(* the Device trait of src/src/device.rs as implemented by                 *)
(* src/src/device/linux.rs.  A run is strictly sequential: one device      *)
(* operation per step, in the order main issues them.                      *)
(*                                                                         *)
(* Abstractions.                                                           *)
(*  - A block's content is one value.  The program only copies block       *)
(*    contents and compares them for equality (main.rs:424).               *)
(*  - Before the run, physical block p of the drive holds the value p:     *)
(*    pre-test contents are pairwise distinct, so that a block restored    *)
(*    with the content of another block is always visible.  Random         *)
(*    payloads range over 0..MaxData-1 and may coincide with each other    *)
(*    and with pre-test contents.                                          *)
(*  - The drive is the environment.  Its first `real` blocks are backed;   *)
(*    an access to a block at or beyond `real` is redirected by `alias`    *)
(*    to a backed block (real = num_drive_blocks is a genuine drive).      *)
(*    Any read or write may fail, at most MaxFaults times per run.         *)
(*  - u64 values keep their meaning except 2^64-1, written Wrapped (TLC's  *)
(*    integers are 32 bits wide); it only arises from 0u64 - 1.            *)
(*  - A String is a sequence of characters; the files of sysfs hold a      *)
(*    value followed by a newline.  The sysfs path of the device is the    *)
(*    list of its directories from the device's own up to, and without,    *)
(*    /sys.                                                                *)
(*  - The engine only prints DeviceInfo, so the whole run (Spec) is        *)
(*    explored on one block-special path and on the paths whose open or    *)
(*    discovery fails; SpecDevice explores the handle on every kind of     *)
(*    path, and SpecBlocks the layout of the buffers.                      *)
(***************************************************************************)
EXTENDS Integers, Sequences, FiniteSets, TLC

\* Bounds of the model.
MaxSizeKb == 2
MaxSlots == 2
MaxData == 2
MaxFaults == 2
PlanMaxBlocks == 9
PlanMaxSlots == 7
MaxCalls == 3
MaxBufBlocks == 2

\* cli.block_size_kb ranges over these (main.rs:40-41).
BlockSizesKb == {1, 2}

VARIABLES
    pc,                   \* position of main
    cli,                  \* the parsed command line (struct Cli)
    drive,                \* LinuxDevice: size, and whether opened read-only
    backing,              \* environment: the drive's real capacity and aliasing
    disk,                 \* environment: content of each backed block
    faults,               \* environment: failures it may still inject
    num_drive_blocks,
    spot_blocks,          \* Vec<BlockIdx>, indexed from 0
    i,                    \* loop index of the running read_blocks/write_blocks
    validation_map,
    orig_data,
    orig_data_option,     \* "None" or "Some" (then orig_data is its content)
    random_blocks,
    read_random_blocks,
    validated_drive_size,
    printed,              \* the maps handed to print_validation_map, in order
    result,               \* "running", then "ok" (Ok(())), "err" (Err) or "panic"
    oplog,                \* every drive.read / drive.write issued, in order
    sys,                  \* environment: what the OS reports about the path
    calls,                \* every call of the handle's queries, with its result
    buf,                  \* a Blocks buffer: its address and its layout
    io                    \* the slices and offsets handed to the drive from buf

vars == <<pc, cli, drive, backing, disk, faults, num_drive_blocks, spot_blocks, i,
          validation_map, orig_data, orig_data_option, random_blocks,
          read_random_blocks, validated_drive_size, printed, result, oplog,
          sys, calls, buf, io>>

\* ------------------------------------------------------------------------
\* Vectors indexed from 0, as in the source.

Len0(f) == Cardinality(DOMAIN f)

Push(f, x) == [k \in 0..Len0(f) |-> IF k < Len0(f) THEN f[k] ELSE x]

Fill(n, x) == [k \in 0..(n - 1) |-> x]

\* The u64 value 2^64 - 1.
Wrapped == -1

\* ------------------------------------------------------------------------
\* struct Blocks (main.rs:160-197): per-block data and per-block error.

BlocksNew(num_blocks) ==
    [data |-> Fill(num_blocks, 0), errors |-> Fill(num_blocks, "None")]

\* ------------------------------------------------------------------------
\* Sampling planner (main.rs:327-336).

\* Mutant of round_div: the quotient is truncated.
round_div_truncated(a, b) == a \div b

\* (a as f64 / b as f64).round() for a >= 0, b > 0: half rounds away from 0.
round_div(a, b) == (2 * a + b) \div (2 * b)

\* Mutant of rounded_quotient: the region's start instead of its end.
rounded_quotient_of_start(k, blocks, n) == round_div(k * blocks, n)

\* The rounded quotient of slot k, before the subtraction of 1.
rounded_quotient(k, blocks, n) == round_div((k + 1) * blocks, n)

\* ------------------------------------------------------------------------
\* The drive (device/linux.rs:85-111), in units of one test block.

InRange(num) == num >= 0 /\ num < num_drive_blocks

Phys(num) == IF num < backing.real THEN num ELSE backing.alias[num]

\* drive.read(offset, data): the possible results.  The seek fails for the
\* offset of a Wrapped block number (it is negative as an off_t).
DriveRead(num) ==
    IF ~InRange(num)
    THEN {[ok |-> FALSE, data |-> 0, fault |-> 0]}
    ELSE {[ok |-> TRUE, data |-> disk[Phys(num)], fault |-> 0]}
         \cup (IF faults > 0 THEN {[ok |-> FALSE, data |-> 0, fault |-> 1]} ELSE {})

\* drive.write(offset, data): the possible results.  A drive opened without
\* write access (device/linux.rs:47-52) fails every write.  A failed write
\* leaves the block as it was.
DriveWrite(num, data) ==
    IF drive.read_only \/ ~InRange(num)
    THEN {[ok |-> FALSE, disk |-> disk, fault |-> 0]}
    ELSE {[ok |-> TRUE, disk |-> [disk EXCEPT ![Phys(num)] = data], fault |-> 0]}
         \cup (IF faults > 0 THEN {[ok |-> FALSE, disk |-> disk, fault |-> 1]} ELSE {})

\* One entry of oplog: the operation, the spot block it was issued for, its
\* result, and the content read (when it succeeded) or handed to the write.
Op(kind, phase, b, ok, data) ==
    [op |-> kind, phase |-> phase, idx |-> b.idx, num |-> b.num, ok |-> ok,
     data |-> data]

\* ------------------------------------------------------------------------
\* Loop bodies of read_blocks and write_blocks.

\* read_blocks, main.rs:78-100, iteration k with result r of drive.read.
read_blocks_iter(blocks, k, r) ==
    IF r.ok THEN [blocks EXCEPT !.data[k] = r.data]
    ELSE [blocks EXCEPT !.errors[k] = "ReadError"]

\* write_blocks, main.rs:121-146: whether iteration k is skipped.
write_blocks_skips(data, k) == data.errors[k] = "ReadError"

\* Mutant of write_blocks_iter: a failed write is not recorded.
write_blocks_iter_unrecorded(data, k, ok) == data

\* write_blocks, main.rs:127-144, iteration k with result ok of drive.write.
write_blocks_iter(data, k, ok) ==
    IF ok THEN data ELSE [data EXCEPT !.errors[k] = "WriteError"]

\* ------------------------------------------------------------------------
\* The validation map.

\* main.rs:359-365
RECURSIVE record_orig_reads(_, _, _, _)
record_orig_reads(vm, sb, od, k) ==
    IF k = Len0(sb) THEN vm
    ELSE record_orig_reads(
             [vm EXCEPT ![sb[k].idx] =
                 IF od.errors[k] = "ReadError" THEN "ReadError" ELSE "ReadSuccessful"],
             sb, od, k + 1)

\* main.rs:402-406
RECURSIVE record_write_errors(_, _, _, _)
record_write_errors(vm, sb, rb, k) ==
    IF k = Len0(sb) THEN vm
    ELSE record_write_errors(
             IF rb.errors[k] = "WriteError"
             THEN [vm EXCEPT ![sb[k].idx] = "WriteError"] ELSE vm,
             sb, rb, k + 1)

\* Mutant of classify: the comparison comes before the error checks.
classify_compare_first(rb, rrb, k) ==
    IF rrb.data[k] = rb.data[k] THEN "Validated"
    ELSE IF rb.errors[k] = "WriteError" THEN "WriteError"
    ELSE IF rrb.errors[k] = "ReadError" THEN "ReadError"
    ELSE "NoStorage"

\* Mutant of classify: the comparison is left out.
classify_no_compare(rb, rrb, k) ==
    IF rb.errors[k] = "WriteError" THEN "WriteError"
    ELSE IF rrb.errors[k] = "ReadError" THEN "ReadError"
    ELSE "Validated"

\* main.rs:420-428, the classification of visitation position k.
classify(rb, rrb, k) ==
    IF rb.errors[k] = "WriteError" THEN "WriteError"
    ELSE IF rrb.errors[k] = "ReadError" THEN "ReadError"
    ELSE IF rrb.data[k] = rb.data[k] THEN "Validated"
    ELSE "NoStorage"

\* Mutant of fill_validation_map: a slot that validated keeps its old entry.
RECURSIVE fill_validation_map_failures(_, _, _, _, _)
fill_validation_map_failures(vm, sb, rb, rrb, k) ==
    IF k = Len0(sb) THEN vm
    ELSE fill_validation_map_failures(
             IF classify(rb, rrb, k) = "Validated" THEN vm
             ELSE [vm EXCEPT ![sb[k].idx] = classify(rb, rrb, k)],
             sb, rb, rrb, k + 1)

\* main.rs:419-429
RECURSIVE fill_validation_map(_, _, _, _, _)
fill_validation_map(vm, sb, rb, rrb, k) ==
    IF k = Len0(sb) THEN vm
    ELSE fill_validation_map([vm EXCEPT ![sb[k].idx] = classify(rb, rrb, k)],
                             sb, rb, rrb, k + 1)

\* main.rs:434-440: the last index of the run of Validated entries from 0.
RECURSIVE highest_validated_from(_, _, _)
highest_validated_from(vm, k, best) ==
    IF k = Len0(vm) THEN best
    ELSE IF vm[k] # "Validated" THEN best
    ELSE highest_validated_from(vm, k + 1, k)

\* Mutant of highest_validated_block_idx: the scan does not stop at the first
\* entry that is not Validated.
highest_validated_anywhere(vm) ==
    IF \E k \in DOMAIN vm : vm[k] = "Validated"
    THEN CHOOSE k \in DOMAIN vm :
             vm[k] = "Validated" /\ \A j \in DOMAIN vm : vm[j] = "Validated" => j <= k
    ELSE -1

highest_validated_block_idx(vm) == highest_validated_from(vm, 0, -1)

\* Mutant of size_at_idx: idx is taken for a position in spot_blocks.
size_at_position(sb, idx, kb, k) == (sb[idx].num + 1) * kb * 1024

\* main.rs:443-450: the first entry of spot_blocks with the given idx.
RECURSIVE size_at_idx(_, _, _, _)
size_at_idx(sb, idx, kb, k) ==
    IF k = Len0(sb) THEN 0
    ELSE IF sb[k].idx = idx THEN (sb[k].num + 1) * kb * 1024
    ELSE size_at_idx(sb, idx, kb, k + 1)

\* main.rs:441-451
validated_size(vm, sb, kb) ==
    IF highest_validated_block_idx(vm) >= 0
    THEN size_at_idx(sb, highest_validated_block_idx(vm), kb, 0)
    ELSE 0

\* ------------------------------------------------------------------------
\* What the OS reports about the path (device/linux.rs:121-250 reads it).

\* A file of sysfs: present with its raw content, absent, or present and
\* not readable.
File(state, raw) == [state |-> state, raw |-> raw]

Present == File("present", <<"x", "\n">>)

Absent == File("absent", << >>)

Unreadable == File("unreadable", << >>)

\* device/vendor ... device/firmware_rev (linux.rs:168-173)
AttrFiles == {"vendor", "model", "serial", "rev", "firmware_rev"}

\* The descriptor files of a USB device (linux.rs:220-236)
UsbFiles == {"idVendor", "idProduct", "manufacturer", "product", "serial",
             "version", "speed"}

NoUsbFiles == [f \in UsbFiles |-> Absent]

AllUsbFiles == [f \in UsbFiles |-> Present]

\* One directory of the sysfs path: the base name of the target of its
\* subsystem link and of its driver link ("" when there is no such link, "?"
\* when the link is there and cannot be read), and its descriptor files.
Level(subsystem, driver, files) ==
    [subsystem |-> subsystem, driver |-> driver, files |-> files]

\* /sys/devices/pci.../ata1/host0/target0:0:0/0:0:0:0/block/sda
SataPath ==
    <<Level("block", "", NoUsbFiles), Level("", "", NoUsbFiles),
      Level("scsi", "sd", NoUsbFiles), Level("scsi", "", NoUsbFiles),
      Level("pci", "ahci", NoUsbFiles), Level("", "", NoUsbFiles)>>

\* /sys/devices/pci.../usb1/1-1/1-1:1.0/host2/target2:0:0/2:0:0:0/block/sdb:
\* the interface (1-1:1.0) bound to driver, the USB device (1-1) bound to
\* device_driver and holding the given files, the hub (usb1) bound to
\* hub_driver.
UsbPathOf(driver, device_driver, files, hub_driver) ==
    <<Level("block", "", NoUsbFiles), Level("", "", NoUsbFiles),
      Level("scsi", "sd", NoUsbFiles), Level("scsi", "", NoUsbFiles),
      Level("usb", driver, NoUsbFiles), Level("usb", device_driver, files),
      Level("usb", hub_driver, AllUsbFiles), Level("pci", "xhci_hcd", NoUsbFiles),
      Level("", "", NoUsbFiles)>>

\* The usual case: device and hub bound to the driver usb.
UsbPath(driver, files) == UsbPathOf(driver, "usb", files, "usb")

\* The same, with a subsystem link that cannot be read.
BrokenPath ==
    <<Level("block", "", NoUsbFiles), Level("?", "", NoUsbFiles),
      Level("scsi", "sd", NoUsbFiles)>>

SysPaths ==
    {SataPath, BrokenPath,
     UsbPath("usb-storage", AllUsbFiles), UsbPath("uas", AllUsbFiles),
     UsbPath("usb-storage", [AllUsbFiles EXCEPT !["idVendor"] = Absent]),
     UsbPath("usb-storage", [AllUsbFiles EXCEPT !["serial"] = Unreadable]),
     UsbPathOf("usb-storage", "usb", AllUsbFiles, "?"),
     UsbPathOf("usb-storage", "usb",
               [AllUsbFiles EXCEPT !["idVendor"] = Absent], "?"),
     UsbPathOf("uas", "usb-storage",
               [AllUsbFiles EXCEPT !["idVendor"] = Absent], "usb")}

\* logical and physical block size of a block device, in bytes
BlockSizePairs == {<<512, 512>>, <<512, 4096>>, <<4096, 4096>>}

\* The attribute files: all present, or one of them absent or unreadable.
AttrStates ==
    {[a \in AttrFiles |-> IF a = f THEN st ELSE Present] :
        f \in AttrFiles, st \in {Present, Absent, Unreadable}}

\* A block-special path of a SATA disk on which everything can be read.
GoodSysfs(size) ==
    [openable |-> TRUE, from_file |-> "block", query_fail |-> "none",
     logical |-> 512, physical |-> 512, geometry_size |-> size,
     attr |-> [a \in AttrFiles |-> Present],
     canonical |-> TRUE, levels |-> SataPath]

\* Every path of the model whose file is size bytes long:
\*   openable       whether open(2) and the seek to the end succeed
\*   from_file      BlockDev::from_file: "block", "invalid_input" (the path
\*                  is not block-special) or "error"
\*   query_fail     the query that fails, of "logical", "physical", "count"
\*                  (the ioctls of the geometry) and "metadata" (fstat)
\*   geometry_size  the size the block device interface reports
\*   canonical      whether the sysfs path can be canonicalized
Sysfs(size) ==
    {[GoodSysfs(size) EXCEPT !.openable = FALSE],
     [GoodSysfs(size) EXCEPT !.from_file = "invalid_input"],
     [GoodSysfs(size) EXCEPT !.from_file = "error"]}
    \cup
    {[openable |-> TRUE, from_file |-> "block", query_fail |-> f,
      logical |-> bs[1], physical |-> bs[2], geometry_size |-> g,
      attr |-> a, canonical |-> c, levels |-> l] :
        f \in {"none", "logical", "physical", "count", "metadata"},
        bs \in BlockSizePairs, g \in {size, size + 512}, a \in AttrStates,
        c \in BOOLEAN, l \in SysPaths}

\* The paths the whole run is explored on.
MainSysfs(size) ==
    {GoodSysfs(size),
     [GoodSysfs(size) EXCEPT !.openable = FALSE],
     [GoodSysfs(size) EXCEPT !.from_file = "error"],
     [GoodSysfs(size) EXCEPT !.geometry_size = size + 512]}

\* ------------------------------------------------------------------------
\* The device handle (device.rs:27-87, device/linux.rs:36-283).

\* DeviceInfo::new(), device.rs:68-87
DeviceInfoNew ==
    [vendor |-> << >>, model |-> << >>, serial |-> << >>, revision |-> << >>,
     firmware_revision |-> << >>, size |-> 0, is_block_device |-> FALSE,
     logical_block_size |-> 0, physical_block_size |-> 0,
     subsystems |-> << >>, usb_driver |-> << >>, usb_vendor_id |-> << >>,
     usb_product_id |-> << >>, usb_manufacturer |-> << >>,
     usb_product |-> << >>, usb_serial_number |-> << >>,
     usb_version |-> << >>, usb_speed |-> << >>]

\* The handle before open: no LinuxDevice exists.
NoDevice ==
    [size |-> 0, read_only |-> FALSE, device_info |-> DeviceInfoNew,
     has_device_info |-> FALSE, memory_alignment |-> 0]

\* open, linux.rs:45-70, on a path that can be opened and is size bytes long.
open(size, read_only) ==
    [size |-> size, read_only |-> read_only,
     device_info |-> [DeviceInfoNew EXCEPT !.size = size],
     has_device_info |-> FALSE, memory_alignment |-> 0]

Whitespace == {" ", "\n", "\t"}

RECURSIVE trim_start(_)
trim_start(str) ==
    IF str # << >> /\ Head(str) \in Whitespace THEN trim_start(Tail(str)) ELSE str

RECURSIVE trim_end(_)
trim_end(str) ==
    IF str # << >> /\ str[Len(str)] \in Whitespace
    THEN trim_end(SubSeq(str, 1, Len(str) - 1)) ELSE str

\* str::trim
trim(str) == trim_end(trim_start(str))

\* read_and_trim, linux.rs:278-283: any failure gives the empty string.
read_and_trim(file) ==
    IF file.state = "present" THEN trim(file.raw) ELSE << >>

\* Path::exists
exists(file) == file.state # "absent"

\* std::cmp::max
max(a, b) == IF a >= b THEN a ELSE b

\* get_subsystems_for_sys_path, linux.rs:291-315: the loop from level k on.
RECURSIVE subsystems_from(_, _, _)
subsystems_from(levels, k, subsystems) ==
    IF k > Len(levels) THEN [ok |-> TRUE, subsystems |-> subsystems]
    ELSE IF levels[k].subsystem = ""
    THEN subsystems_from(levels, k + 1, subsystems)
    ELSE IF levels[k].subsystem = "?"
    THEN [ok |-> FALSE, subsystems |-> subsystems]
    ELSE subsystems_from(
             levels, k + 1,
             IF subsystems # << >> /\ subsystems[Len(subsystems)] = levels[k].subsystem
             THEN subsystems
             ELSE Append(subsystems, levels[k].subsystem))

\* get_subsystems_for_sys_path, linux.rs:286-317
get_subsystems_for_sys_path(s) ==
    IF ~s.canonical THEN [ok |-> FALSE, subsystems |-> << >>]
    ELSE subsystems_from(s.levels, 1, << >>)

\* linux.rs:220-237: the descriptor files of the directory `files`.
read_usb_files(info, files) ==
    [info EXCEPT !.usb_vendor_id = read_and_trim(files["idVendor"]),
                 !.usb_product_id = read_and_trim(files["idProduct"]),
                 !.usb_manufacturer = read_and_trim(files["manufacturer"]),
                 !.usb_product = read_and_trim(files["product"]),
                 !.usb_serial_number = read_and_trim(files["serial"]),
                 !.usb_version = read_and_trim(files["version"]),
                 !.usb_speed = read_and_trim(files["speed"])]

\* The files of the parent of level k; the parent of the last level is /sys.
parent_files(levels, k) ==
    IF k < Len(levels) THEN levels[k + 1].files ELSE NoUsbFiles

\* Mutant of usb_from: the loop ends at the first level bound to a storage
\* driver, whatever its parent holds.
RECURSIVE usb_from_first_match(_, _, _)
usb_from_first_match(info, levels, k) ==
    IF k > Len(levels) THEN [ok |-> TRUE, info |-> info]
    ELSE IF levels[k].subsystem = "?" THEN [ok |-> FALSE, info |-> info]
    ELSE IF levels[k].subsystem # "usb" \/ levels[k].driver = ""
    THEN usb_from_first_match(info, levels, k + 1)
    ELSE IF levels[k].driver = "?" THEN [ok |-> FALSE, info |-> info]
    ELSE IF levels[k].driver \notin {"uas", "usb-storage"}
    THEN usb_from_first_match(info, levels, k + 1)
    ELSE [ok |-> TRUE,
          info |-> read_usb_files([info EXCEPT !.usb_driver = <<levels[k].driver>>],
                                  parent_files(levels, k))]

\* fill_usb_device_info, linux.rs:191-248: the loop from level k on.
RECURSIVE usb_from(_, _, _)
usb_from(info, levels, k) ==
    IF k > Len(levels) THEN [ok |-> TRUE, info |-> info]
    ELSE IF levels[k].subsystem = "?" THEN [ok |-> FALSE, info |-> info]
    ELSE IF levels[k].subsystem # "usb" \/ levels[k].driver = ""
    THEN usb_from(info, levels, k + 1)
    ELSE IF levels[k].driver = "?" THEN [ok |-> FALSE, info |-> info]
    ELSE IF levels[k].driver \notin {"uas", "usb-storage"}
    THEN usb_from(info, levels, k + 1)
    ELSE LET found == [info EXCEPT !.usb_driver = <<levels[k].driver>>]
         IN  IF exists(parent_files(levels, k)["idVendor"])
             THEN [ok |-> TRUE,
                   info |-> read_usb_files(found, parent_files(levels, k))]
             ELSE usb_from(found, levels, k + 1)

\* fill_usb_device_info, linux.rs:183-250
fill_usb_device_info(info, s) ==
    IF ~s.canonical THEN [ok |-> FALSE, info |-> info]
    ELSE usb_from(info, s.levels, 1)

\* fill_device_info, linux.rs:161-179: the part that reads sysfs.
fill_from_sysfs(h, s) ==
    LET named == [h.device_info EXCEPT
                     !.vendor = read_and_trim(s.attr["vendor"]),
                     !.model = read_and_trim(s.attr["model"]),
                     !.serial = read_and_trim(s.attr["serial"]),
                     !.revision = read_and_trim(s.attr["rev"]),
                     !.firmware_revision = read_and_trim(s.attr["firmware_rev"])]
        subs == get_subsystems_for_sys_path(s)
    IN  IF ~subs.ok THEN [ok |-> FALSE, handle |-> [h EXCEPT !.device_info = named]]
        ELSE LET chained == [named EXCEPT !.subsystems = subs.subsystems]
             IN  IF \E k \in DOMAIN subs.subsystems : subs.subsystems[k] = "usb"
                 THEN LET usb == fill_usb_device_info(chained, s)
                      IN  [ok |-> usb.ok, handle |-> [h EXCEPT !.device_info = usb.info]]
                 ELSE [ok |-> TRUE, handle |-> [h EXCEPT !.device_info = chained]]

\* Mutant of fill_device_info: the sizes are not compared.
fill_device_info_unchecked(h, s) ==
    IF s.from_file = "invalid_input" THEN [ok |-> TRUE, handle |-> h]
    ELSE IF s.from_file = "error" THEN [ok |-> FALSE, handle |-> h]
    ELSE LET h1 == [h EXCEPT !.device_info.is_block_device = TRUE]
             h2 == [h1 EXCEPT !.device_info.logical_block_size = s.logical]
             h3 == [h2 EXCEPT !.device_info.physical_block_size = s.physical,
                              !.memory_alignment = max(s.logical, s.physical)]
         IN  IF s.query_fail = "logical" THEN [ok |-> FALSE, handle |-> h1]
             ELSE IF s.query_fail = "physical" THEN [ok |-> FALSE, handle |-> h2]
             ELSE IF s.query_fail = "count" THEN [ok |-> FALSE, handle |-> h3]
             ELSE IF s.query_fail = "metadata" THEN [ok |-> FALSE, handle |-> h3]
             ELSE fill_from_sysfs(h3, s)

\* fill_device_info, linux.rs:121-180, on handle h and path s: whether it
\* returned Ok, and the handle as it left it.
fill_device_info(h, s) ==
    IF s.from_file = "invalid_input" THEN [ok |-> TRUE, handle |-> h]
    ELSE IF s.from_file = "error" THEN [ok |-> FALSE, handle |-> h]
    ELSE LET h1 == [h EXCEPT !.device_info.is_block_device = TRUE]
             h2 == [h1 EXCEPT !.device_info.logical_block_size = s.logical]
             h3 == [h2 EXCEPT !.device_info.physical_block_size = s.physical,
                              !.memory_alignment = max(s.logical, s.physical)]
         IN  IF s.query_fail = "logical" THEN [ok |-> FALSE, handle |-> h1]
             ELSE IF s.query_fail = "physical" THEN [ok |-> FALSE, handle |-> h2]
             ELSE IF s.query_fail = "count" THEN [ok |-> FALSE, handle |-> h3]
             ELSE IF s.geometry_size # h.device_info.size
             THEN [ok |-> FALSE, handle |-> h3]
             ELSE IF s.query_fail = "metadata" THEN [ok |-> FALSE, handle |-> h3]
             ELSE fill_from_sysfs(h3, s)

\* Mutant of get_device_info: the result of discovery is never kept.
get_device_info_uncached(h, s) ==
    LET filled == fill_device_info(h, s)
    IN  [ok |-> filled.ok, discovered |-> TRUE, handle |-> filled.handle]

\* get_device_info, linux.rs:77-83: whether it returned Ok, whether it ran
\* the discovery, and the handle as it left it.
get_device_info(h, s) ==
    IF ~h.has_device_info
    THEN LET filled == fill_device_info(h, s)
         IN  IF filled.ok
             THEN [ok |-> TRUE, discovered |-> TRUE,
                   handle |-> [filled.handle EXCEPT !.has_device_info = TRUE]]
             ELSE [ok |-> FALSE, discovered |-> TRUE, handle |-> filled.handle]
    ELSE [ok |-> TRUE, discovered |-> FALSE, handle |-> h]

\* get_memory_alignment, linux.rs:113-115
get_memory_alignment(h) == h.memory_alignment

\* get_size, linux.rs:73-75
get_size(h) == h.size

\* One entry of calls: a call of get_device_info with what it returned (the
\* DeviceInfo when Ok), or a call of another query with its value.
InfoCall(r) ==
    [op |-> "get_device_info", ok |-> r.ok, discovered |-> r.discovered,
     info |-> IF r.ok THEN r.handle.device_info ELSE DeviceInfoNew, value |-> 0]

ValueCall(op, value) ==
    [op |-> op, ok |-> TRUE, discovered |-> FALSE, info |-> DeviceInfoNew,
     value |-> value]

\* ------------------------------------------------------------------------
\* The buffer of a Blocks (main.rs:160-218): where it lies and how it is cut.

\* Mutant of start_offset: the remainder instead of its complement.
start_offset_remainder(base, mem_align) ==
    IF mem_align > 0 /\ base % mem_align # 0 THEN base % mem_align ELSE 0

\* Blocks::new, main.rs:186-189, for a buffer allocated at address base.
start_offset(base, mem_align) ==
    IF mem_align > 0 /\ base % mem_align # 0
    THEN mem_align - (base % mem_align)
    ELSE 0

\* Blocks::block_offset, main.rs:200-202
block_offset(b, k) == b.start_offset + k * b.block_size

\* No buffer yet.
NoBuf ==
    [base |-> 0, len |-> 0, block_size |-> 0, num_blocks |-> 0,
     mem_align |-> 0, start_offset |-> 0, made |-> FALSE]

\* ------------------------------------------------------------------------
\* Initial state: main has not started.

NoCli == [block_size_kb |-> 0, num_blocks |-> 0, read_only |-> FALSE,
          no_restore_original |-> FALSE]

Rest ==
    /\ drive = NoDevice
    /\ backing = [real |-> 0, alias |-> << >>]
    /\ disk = << >>
    /\ faults = MaxFaults
    /\ spot_blocks = << >>
    /\ i = 0
    /\ validation_map = << >>
    /\ orig_data = BlocksNew(0)
    /\ orig_data_option = "None"
    /\ random_blocks = BlocksNew(0)
    /\ read_random_blocks = BlocksNew(0)
    /\ validated_drive_size = 0
    /\ printed = << >>
    /\ result = "running"
    /\ oplog = << >>
    /\ sys = GoodSysfs(0)
    /\ calls = << >>
    /\ buf = NoBuf
    /\ io = << >>

Init ==
    /\ pc = "start"
    /\ cli = NoCli
    /\ num_drive_blocks = 0
    /\ Rest

\* Mutant of size_not_multiple: the factor 1024 of the block size is dropped.
size_not_multiple_of_kb(size, kb) == size % kb # 0

\* main.rs:317: the drive size is not a multiple of the block size.
size_not_multiple(size, kb) == size % (kb * 1024) # 0

\* Mutant of after_orig_reads: read errors are fatal in read-only mode too.
after_orig_reads_errors_first(read_only, has_read_errors) ==
    IF has_read_errors THEN "return_err"
    ELSE IF read_only THEN "return_ok"
    ELSE "continue"

\* Mutant of after_orig_reads: read errors do not stop the run.
after_orig_reads_no_abort(read_only, has_read_errors) ==
    IF read_only THEN "return_ok" ELSE "continue"

\* main.rs:367-383: what main does once the original blocks are read.
after_orig_reads(read_only, has_read_errors) ==
    IF read_only THEN "return_ok"
    ELSE IF has_read_errors THEN "return_err"
    ELSE "continue"

\* ------------------------------------------------------------------------
\* main.rs:312-324: parse the command line, open the drive, identify it,
\* check the size.

Start ==
    /\ pc = "start"
    /\ \E size_kb \in 0..MaxSizeKb, kb \in BlockSizesKb, n \in 1..MaxSlots,
          ro \in BOOLEAN, nro \in BOOLEAN :
         /\ cli' = [block_size_kb |-> kb, num_blocks |-> n, read_only |-> ro,
                    no_restore_original |-> nro]
         /\ \E s \in MainSysfs(size_kb * 1024) :
              LET identified == get_device_info(open(size_kb * 1024, ro), s)
              IN  /\ sys' = s
                  /\ IF ~s.openable
                     THEN /\ result' = "err"
                          /\ pc' = "done"
                          /\ UNCHANGED <<drive, calls, num_drive_blocks, backing,
                                         disk>>
                     ELSE /\ drive' = identified.handle
                          /\ calls' = Append(calls, InfoCall(identified))
                          /\ IF ~identified.ok
                                \/ size_not_multiple(get_size(identified.handle), kb)
                             THEN /\ result' = "err"
                                  /\ pc' = "done"
                                  /\ UNCHANGED <<num_drive_blocks, backing, disk>>
                             ELSE /\ num_drive_blocks' =
                                         get_size(identified.handle) \div (kb * 1024)
                                  /\ \E real \in (IF num_drive_blocks' = 0 THEN {0}
                                                  ELSE 1..num_drive_blocks') :
                                       \E alias \in [real..(num_drive_blocks' - 1)
                                                        -> 0..(real - 1)] :
                                          /\ backing' = [real |-> real, alias |-> alias]
                                          /\ disk' = [p \in 0..(real - 1) |-> p]
                                  /\ pc' = "plan"
                                  /\ UNCHANGED result
    /\ UNCHANGED <<faults, spot_blocks, i, validation_map, orig_data,
                   orig_data_option, random_blocks, read_random_blocks,
                   validated_drive_size, printed, oplog, buf, io>>

\* main.rs:327-336, one iteration.  `as u64 - 1` on a rounded quotient of 0
\* panics in a build with overflow checks and wraps to 2^64-1 without.
PlanStep ==
    /\ UNCHANGED <<sys, calls, buf, io>>
    /\ pc = "plan"
    /\ Len0(spot_blocks) < cli.num_blocks
    /\ LET k == Len0(spot_blocks)
           q == rounded_quotient(k, num_drive_blocks, cli.num_blocks)
       IN  \/ /\ q > 0
              /\ spot_blocks' = Push(spot_blocks, [idx |-> k, num |-> q - 1])
              /\ UNCHANGED <<pc, result>>
           \/ /\ q = 0
              /\ spot_blocks' = Push(spot_blocks, [idx |-> k, num |-> Wrapped])
              /\ UNCHANGED <<pc, result>>
           \/ /\ q = 0
              /\ pc' = "done"
              /\ result' = "panic"
              /\ UNCHANGED spot_blocks
    /\ UNCHANGED <<cli, drive, backing, disk, faults, num_drive_blocks, i,
                   validation_map, orig_data, orig_data_option, random_blocks,
                   read_random_blocks, validated_drive_size, printed, oplog>>

\* A permutation of 0..n-1.
Orders(n) == {p \in [0..(n - 1) -> 0..(n - 1)] :
                 \A a, b \in 0..(n - 1) : p[a] = p[b] => a = b}

\* spot_blocks.shuffle(rng), main.rs:341: the entries in the order p.
shuffle(sb, p) == [k \in DOMAIN sb |-> sb[p[k]]]

\* Mutant of Shuffle: the original blocks are read whatever the options.
Shuffle_always_reads ==
    /\ UNCHANGED <<sys, calls, buf, io>>
    /\ pc = "plan"
    /\ Len0(spot_blocks) = cli.num_blocks
    /\ \E p \in Orders(cli.num_blocks) : spot_blocks' = shuffle(spot_blocks, p)
    /\ validation_map' = Fill(cli.num_blocks, "Unknown")
    /\ orig_data_option' = "None"
    /\ orig_data' = BlocksNew(cli.num_blocks)
    /\ i' = 0
    /\ pc' = "read_orig"
    /\ UNCHANGED <<cli, drive, backing, disk, faults, num_drive_blocks,
                   random_blocks, read_random_blocks, validated_drive_size,
                   printed, result, oplog>>

\* main.rs:338-356: shuffle, create the map, enter the first phase.
Shuffle ==
    /\ UNCHANGED <<sys, calls, buf, io>>
    /\ pc = "plan"
    /\ Len0(spot_blocks) = cli.num_blocks
    /\ \E p \in Orders(cli.num_blocks) : spot_blocks' = shuffle(spot_blocks, p)
    /\ validation_map' = Fill(cli.num_blocks, "Unknown")
    /\ orig_data_option' = "None"
    /\ orig_data' = IF cli.no_restore_original THEN orig_data
                     ELSE BlocksNew(cli.num_blocks)
    /\ i' = 0
    /\ pc' = IF cli.no_restore_original THEN "generate" ELSE "read_orig"
    /\ UNCHANGED <<cli, drive, backing, disk, faults, num_drive_blocks,
                   random_blocks, read_random_blocks, validated_drive_size,
                   printed, result, oplog>>

\* read_blocks for the original data (main.rs:352-356), one iteration.
ReadOrigStep ==
    /\ UNCHANGED <<sys, calls, buf, io>>
    /\ pc = "read_orig"
    /\ i < cli.num_blocks
    /\ \E r \in DriveRead(spot_blocks[i].num) :
         /\ orig_data' = read_blocks_iter(orig_data, i, r)
         /\ faults' = faults - r.fault
         /\ oplog' = Append(oplog, Op("read", "read_orig", spot_blocks[i], r.ok, r.data))
    /\ i' = i + 1
    /\ UNCHANGED <<pc, cli, drive, backing, disk, num_drive_blocks, spot_blocks,
                   validation_map, orig_data_option, random_blocks,
                   read_random_blocks, validated_drive_size, printed, result>>

\* main.rs:358-384
ReadOrigDone ==
    /\ UNCHANGED <<sys, calls, buf, io>>
    /\ pc = "read_orig"
    /\ i = cli.num_blocks
    /\ LET vm == record_orig_reads(validation_map, spot_blocks, orig_data, 0)
           has_read_errors == \E s \in DOMAIN vm : vm[s] = "ReadError"
       IN  /\ validation_map' = vm
           /\ printed' = IF has_read_errors \/ cli.read_only
                         THEN Append(printed, vm) ELSE printed
           /\ LET then == after_orig_reads(cli.read_only, has_read_errors)
              IN  IF then = "return_ok"
                  THEN result' = "ok" /\ pc' = "done" /\ UNCHANGED orig_data_option
                  ELSE IF then = "return_err"
                  THEN result' = "err" /\ pc' = "done" /\ UNCHANGED orig_data_option
                  ELSE /\ orig_data_option' = "Some"
                       /\ pc' = "generate"
                       /\ UNCHANGED result
    /\ UNCHANGED <<cli, drive, backing, disk, faults, num_drive_blocks,
                   spot_blocks, i, orig_data, random_blocks, read_random_blocks,
                   validated_drive_size, oplog>>

\* main.rs:392-397: the random payload, one value per block.
Generate ==
    /\ UNCHANGED <<sys, calls, buf, io>>
    /\ pc = "generate"
    /\ \E payload \in [0..(cli.num_blocks - 1) -> 0..(MaxData - 1)] :
         random_blocks' = [BlocksNew(cli.num_blocks) EXCEPT !.data = payload]
    /\ i' = 0
    /\ pc' = "write_random"
    /\ UNCHANGED <<cli, drive, backing, disk, faults, num_drive_blocks,
                   spot_blocks, validation_map, orig_data, orig_data_option,
                   read_random_blocks, validated_drive_size, printed, result,
                   oplog>>

\* write_blocks for the random payload (main.rs:399), one iteration.
WriteRandomStep ==
    /\ UNCHANGED <<sys, calls, buf, io>>
    /\ pc = "write_random"
    /\ i < cli.num_blocks
    /\ IF write_blocks_skips(random_blocks, i)
       THEN UNCHANGED <<random_blocks, disk, faults, oplog>>
       ELSE \E w \in DriveWrite(spot_blocks[i].num, random_blocks.data[i]) :
              /\ random_blocks' = write_blocks_iter(random_blocks, i, w.ok)
              /\ disk' = w.disk
              /\ faults' = faults - w.fault
              /\ oplog' = Append(oplog, Op("write", "write_random", spot_blocks[i],
                                            w.ok, random_blocks.data[i]))
    /\ i' = i + 1
    /\ UNCHANGED <<pc, cli, drive, backing, num_drive_blocks, spot_blocks,
                   validation_map, orig_data, orig_data_option,
                   read_random_blocks, validated_drive_size, printed, result>>

\* main.rs:401-416: record the write errors, start the read-back.
WriteRandomDone ==
    /\ UNCHANGED <<sys, calls, buf, io>>
    /\ pc = "write_random"
    /\ i = cli.num_blocks
    /\ validation_map' =
           record_write_errors(validation_map, spot_blocks, random_blocks, 0)
    /\ read_random_blocks' = BlocksNew(cli.num_blocks)
    /\ i' = 0
    /\ pc' = "read_back"
    /\ UNCHANGED <<cli, drive, backing, disk, faults, num_drive_blocks,
                   spot_blocks, orig_data, orig_data_option, random_blocks,
                   validated_drive_size, printed, result, oplog>>

\* Mutant of ReadBackStep: a slot whose random write failed is not read.
ReadBackStep_skipping ==
    /\ UNCHANGED <<sys, calls, buf, io>>
    /\ pc = "read_back"
    /\ i < cli.num_blocks
    /\ IF random_blocks.errors[i] = "WriteError"
       THEN UNCHANGED <<read_random_blocks, faults, oplog>>
       ELSE \E r \in DriveRead(spot_blocks[i].num) :
              /\ read_random_blocks' = read_blocks_iter(read_random_blocks, i, r)
              /\ faults' = faults - r.fault
              /\ oplog' = Append(oplog, Op("read", "read_back", spot_blocks[i],
                                            r.ok, r.data))
    /\ i' = i + 1
    /\ UNCHANGED <<pc, cli, drive, backing, disk, num_drive_blocks, spot_blocks,
                   validation_map, orig_data, orig_data_option, random_blocks,
                   validated_drive_size, printed, result>>

\* read_blocks for the read-back (main.rs:412-416), one iteration.
ReadBackStep ==
    /\ UNCHANGED <<sys, calls, buf, io>>
    /\ pc = "read_back"
    /\ i < cli.num_blocks
    /\ \E r \in DriveRead(spot_blocks[i].num) :
         /\ read_random_blocks' = read_blocks_iter(read_random_blocks, i, r)
         /\ faults' = faults - r.fault
         /\ oplog' = Append(oplog, Op("read", "read_back", spot_blocks[i], r.ok, r.data))
    /\ i' = i + 1
    /\ UNCHANGED <<pc, cli, drive, backing, disk, num_drive_blocks, spot_blocks,
                   validation_map, orig_data, orig_data_option, random_blocks,
                   validated_drive_size, printed, result>>

\* main.rs:418-460: fill and print the map, derive the validated size.
ReadBackDone ==
    /\ UNCHANGED <<sys, calls, buf, io>>
    /\ pc = "read_back"
    /\ i = cli.num_blocks
    /\ LET vm == fill_validation_map(validation_map, spot_blocks, random_blocks,
                                     read_random_blocks, 0)
       IN  /\ validation_map' = vm
           /\ printed' = Append(printed, vm)
           /\ validated_drive_size' = validated_size(vm, spot_blocks, cli.block_size_kb)
    /\ i' = 0
    /\ IF orig_data_option = "Some"
       THEN pc' = "restore" /\ UNCHANGED result
       ELSE pc' = "done" /\ result' = "ok"
    /\ UNCHANGED <<cli, drive, backing, disk, faults, num_drive_blocks,
                   spot_blocks, orig_data, orig_data_option, random_blocks,
                   read_random_blocks, oplog>>

\* Mutant of RestoreStep: the blocks are restored last slot first.
RestoreStep_backwards ==
    /\ UNCHANGED <<sys, calls, buf, io>>
    /\ pc = "restore"
    /\ i < cli.num_blocks
    /\ LET k == cli.num_blocks - 1 - i
       IN  IF write_blocks_skips(orig_data, k)
           THEN UNCHANGED <<orig_data, disk, faults, oplog>>
           ELSE \E w \in DriveWrite(spot_blocks[k].num, orig_data.data[k]) :
                  /\ orig_data' = write_blocks_iter(orig_data, k, w.ok)
                  /\ disk' = w.disk
                  /\ faults' = faults - w.fault
                  /\ oplog' = Append(oplog, Op("write", "restore", spot_blocks[k],
                                                w.ok, orig_data.data[k]))
    /\ i' = i + 1
    /\ UNCHANGED <<pc, cli, drive, backing, num_drive_blocks, spot_blocks,
                   validation_map, orig_data_option, random_blocks,
                   read_random_blocks, validated_drive_size, printed, result>>

\* Mutant of RestoreStep: the random data is written in place of the original.
RestoreStep_random ==
    /\ UNCHANGED <<sys, calls, buf, io>>
    /\ pc = "restore"
    /\ i < cli.num_blocks
    /\ IF write_blocks_skips(orig_data, i)
       THEN UNCHANGED <<orig_data, disk, faults, oplog>>
       ELSE \E w \in DriveWrite(spot_blocks[i].num, random_blocks.data[i]) :
              /\ orig_data' = write_blocks_iter(orig_data, i, w.ok)
              /\ disk' = w.disk
              /\ faults' = faults - w.fault
              /\ oplog' = Append(oplog, Op("write", "restore", spot_blocks[i],
                                            w.ok, random_blocks.data[i]))
    /\ i' = i + 1
    /\ UNCHANGED <<pc, cli, drive, backing, num_drive_blocks, spot_blocks,
                   validation_map, orig_data_option, random_blocks,
                   read_random_blocks, validated_drive_size, printed, result>>

\* write_blocks for the original data (main.rs:462), one iteration.
RestoreStep ==
    /\ UNCHANGED <<sys, calls, buf, io>>
    /\ pc = "restore"
    /\ i < cli.num_blocks
    /\ IF write_blocks_skips(orig_data, i)
       THEN UNCHANGED <<orig_data, disk, faults, oplog>>
       ELSE \E w \in DriveWrite(spot_blocks[i].num, orig_data.data[i]) :
              /\ orig_data' = write_blocks_iter(orig_data, i, w.ok)
              /\ disk' = w.disk
              /\ faults' = faults - w.fault
              /\ oplog' = Append(oplog, Op("write", "restore", spot_blocks[i],
                                            w.ok, orig_data.data[i]))
    /\ i' = i + 1
    /\ UNCHANGED <<pc, cli, drive, backing, num_drive_blocks, spot_blocks,
                   validation_map, orig_data_option, random_blocks,
                   read_random_blocks, validated_drive_size, printed, result>>

\* Mutant of RestoreDone: the run ends with an error.
RestoreDone_fails ==
    /\ UNCHANGED <<sys, calls, buf, io>>
    /\ pc = "restore"
    /\ i = cli.num_blocks
    /\ pc' = "done"
    /\ result' = "err"
    /\ UNCHANGED <<cli, drive, backing, disk, faults, num_drive_blocks,
                   spot_blocks, i, validation_map, orig_data, orig_data_option,
                   random_blocks, read_random_blocks, validated_drive_size,
                   printed, oplog>>

\* Mutant of RestoreDone: main does not return after the restore.
RestoreDone_waits ==
    /\ pc = "restore"
    /\ i = cli.num_blocks
    /\ UNCHANGED vars

\* main.rs:463-464
RestoreDone ==
    /\ UNCHANGED <<sys, calls, buf, io>>
    /\ pc = "restore"
    /\ i = cli.num_blocks
    /\ pc' = "done"
    /\ result' = "ok"
    /\ UNCHANGED <<cli, drive, backing, disk, faults, num_drive_blocks,
                   spot_blocks, i, validation_map, orig_data, orig_data_option,
                   random_blocks, read_random_blocks, validated_drive_size,
                   printed, oplog>>

Next ==
    \/ Start
    \/ PlanStep
    \/ Shuffle
    \/ ReadOrigStep
    \/ ReadOrigDone
    \/ Generate
    \/ WriteRandomStep
    \/ WriteRandomDone
    \/ ReadBackStep
    \/ ReadBackDone
    \/ RestoreStep
    \/ RestoreDone

Spec == Init /\ [][Next]_vars

\* The run as a process that is never suspended for ever: main is sequential
\* code whose loops are bounded and every call of the drive returns, so a
\* step that can be taken is taken.
SpecLive == Init /\ [][Next]_vars /\ WF_vars(Next)

\* ------------------------------------------------------------------------
\* The planner alone, over a wider range of drive sizes and slot counts.

InitPlan ==
    /\ pc = "plan"
    /\ \E n \in 1..PlanMaxSlots :
         cli = [block_size_kb |-> 1, num_blocks |-> n, read_only |-> FALSE,
                no_restore_original |-> FALSE]
    /\ num_drive_blocks \in 1..PlanMaxBlocks
    /\ Rest

NextPlan == PlanStep

SpecPlan == InitPlan /\ [][NextPlan]_vars

\* ------------------------------------------------------------------------
\* The handle alone: a path is opened, then its queries are called in any
\* order, MaxCalls times in all.

\* The variables of the engine, which the handle and the buffers leave alone.
engine_vars ==
    <<cli, backing, disk, faults, num_drive_blocks, spot_blocks, i,
      validation_map, orig_data, orig_data_option, random_blocks,
      read_random_blocks, validated_drive_size, printed, oplog>>

InitDevice ==
    /\ pc = "closed"
    /\ cli = NoCli
    /\ num_drive_blocks = 0
    /\ Rest

\* device::open, device.rs:133-135 and linux.rs:45-70
DeviceOpen ==
    /\ pc = "closed"
    /\ \E read_only \in BOOLEAN : \E s \in Sysfs(MaxSizeKb * 1024) :
         /\ sys' = s
         /\ IF s.openable
            THEN /\ drive' = open(MaxSizeKb * 1024, read_only)
                 /\ pc' = "open"
                 /\ UNCHANGED result
            ELSE /\ pc' = "done"
                 /\ result' = "err"
                 /\ UNCHANGED drive
    /\ UNCHANGED <<engine_vars, calls, buf, io>>

\* a call of get_device_info, linux.rs:77-83
DeviceGetInfo ==
    /\ pc = "open"
    /\ Len(calls) < MaxCalls
    /\ LET identified == get_device_info(drive, sys)
       IN  /\ drive' = identified.handle
           /\ calls' = Append(calls, InfoCall(identified))
    /\ UNCHANGED <<engine_vars, pc, result, sys, buf, io>>

\* a call of get_memory_alignment, linux.rs:113-115
DeviceGetAlignment ==
    /\ pc = "open"
    /\ Len(calls) < MaxCalls
    /\ calls' = Append(calls, ValueCall("get_memory_alignment",
                                        get_memory_alignment(drive)))
    /\ UNCHANGED <<engine_vars, pc, result, drive, sys, buf, io>>

\* a call of get_size, linux.rs:73-75
DeviceGetSize ==
    /\ pc = "open"
    /\ Len(calls) < MaxCalls
    /\ calls' = Append(calls, ValueCall("get_size", get_size(drive)))
    /\ UNCHANGED <<engine_vars, pc, result, drive, sys, buf, io>>

NextDevice ==
    \/ DeviceOpen
    \/ DeviceGetInfo
    \/ DeviceGetAlignment
    \/ DeviceGetSize

SpecDevice == InitDevice /\ [][NextDevice]_vars

\* ------------------------------------------------------------------------
\* The buffers alone: a Blocks is created as read_blocks and main create it,
\* then its blocks are handed to the drive as read_blocks and write_blocks
\* hand them.

\* cli.block_size_kb for the buffers: 4 is the default (main.rs:40).
BufBlockSizesKb == BlockSizesKb \cup {4}

\* What get_memory_alignment can return: 0, or the larger block size.
Alignments == {0} \cup {max(bs[1], bs[2]) : bs \in BlockSizePairs}

\* Addresses the allocator may return for the Vec<u8> (its alignment is 1).
Bases == {4096, 4112, 4608, 5000, 8191}

InitBlocks ==
    /\ pc = "buffer"
    /\ cli = NoCli
    /\ num_drive_blocks = 0
    /\ Rest

\* Blocks::new, main.rs:180-197
BlocksNewStep ==
    /\ pc = "buffer"
    /\ \E kb \in BufBlockSizesKb, n \in 1..MaxBufBlocks, mem_align \in Alignments,
          base \in Bases :
         buf' = [base |-> base, len |-> n * kb * 1024 + mem_align,
                 block_size |-> kb * 1024, num_blocks |-> n,
                 mem_align |-> mem_align,
                 start_offset |-> start_offset(base, mem_align), made |-> TRUE]
    /\ pc' = "io"
    /\ UNCHANGED <<engine_vars, result, drive, sys, calls, io>>

\* One iteration of the loop of read_blocks (main.rs:78-81) or write_blocks
\* (main.rs:126-127): block Len(io) of the buffer goes to block num of the
\* drive.
BlockIoStep ==
    /\ pc = "io"
    /\ Len(io) < buf.num_blocks
    /\ \E num \in 0..MaxBufBlocks :
         io' = Append(io, [addr |-> buf.base + block_offset(buf, Len(io)),
                           len |-> block_offset(buf, Len(io) + 1)
                                       - block_offset(buf, Len(io)),
                           offset |-> num * buf.block_size])
    /\ UNCHANGED <<engine_vars, pc, result, drive, sys, calls, buf>>

NextBlocks ==
    \/ BlocksNewStep
    \/ BlockIoStep

SpecBlocks == InitBlocks /\ [][NextBlocks]_vars

\* ------------------------------------------------------------------------
\* Vocabulary of the properties.

\* The indices of oplog that belong to a phase.
OpsOf(phase) == {k \in DOMAIN oplog : oplog[k].phase = phase}

\* Entry k of oplog is the operation of a phase for slot s.
IsOp(k, phase, s) == oplog[k].phase = phase /\ oplog[k].idx = s

\* The phase issued exactly one operation for slot s.
OneOp(phase, s) ==
    Cardinality({k \in DOMAIN oplog : IsOp(k, phase, s)}) = 1

TheOp(phase, s) == oplog[CHOOSE k \in DOMAIN oplog : IsOp(k, phase, s)]

Slots == 0..(cli.num_blocks - 1)

BlockSize == cli.block_size_kb * 1024

NoWriteIssued == \A k \in DOMAIN oplog : oplog[k].op # "write"

NoFailure == \A k \in DOMAIN oplog : oplog[k].ok

OrigReadFailed == \E k \in OpsOf("read_orig") : ~oplog[k].ok

LateFailure ==
    \E k \in DOMAIN oplog :
        oplog[k].phase \in {"write_random", "read_back"} /\ ~oplog[k].ok

\* The map has been filled after the read-back and the size derived from it.
MapFinal ==
    \/ pc = "restore"
    \/ pc = "done" /\ result = "ok"
          /\ (cli.no_restore_original \/ ~cli.read_only)

\* A run that went through every phase, restoration included, and returned.
FullRun ==
    pc = "done" /\ result = "ok" /\ ~cli.read_only /\ ~cli.no_restore_original

Genuine == backing.real = num_drive_blocks

\* Real capacity s = backing.real blocks, below the advertised size.
Counterfeit == backing.real < num_drive_blocks

\* The planner's block number of slot s.
BlockOfSlot(s) == rounded_quotient(s, num_drive_blocks, cli.num_blocks) - 1

\* The largest element of a non-empty set of integers.
Largest(S) == CHOOSE x \in S : \A y \in S : y <= x

\* ------------------------------------------------------------------------
\* C1: with the original-read phase enabled and the run not read-only, once
\* an original read has failed no write is ever issued, the run goes no
\* further than the original-read phase, and it ends with an error after
\* presenting exactly one map, which shows ReadError at the slots whose read
\* failed and ReadSuccessful at the others.
C1_OrigReadFailureAborts ==
    (~cli.no_restore_original /\ ~cli.read_only /\ OrigReadFailed) =>
        /\ NoWriteIssued
        /\ pc \in {"read_orig", "done"}
        /\ pc = "done" =>
             /\ result = "err"
             /\ Len(printed) = 1
             /\ \A k \in OpsOf("read_orig") :
                  printed[1][oplog[k].idx] =
                      IF oplog[k].ok THEN "ReadSuccessful" ELSE "ReadError"

\* C1, witness: such a run has ended, one read having failed, another not.
C1_Witness ==
    /\ pc = "done"
    /\ ~cli.no_restore_original /\ ~cli.read_only
    /\ OrigReadFailed
    /\ \E k \in OpsOf("read_orig") : oplog[k].ok

\* C2: after a full run with restoration on a genuine drive, no operation
\* having failed, every sampled block holds its pre-test content (block p
\* held p) and every slot of the map is Validated.
C2_RoundTrip ==
    (FullRun /\ Genuine /\ NoFailure) =>
        /\ \A k \in DOMAIN spot_blocks :
             disk[spot_blocks[k].num] = spot_blocks[k].num
        /\ \A s \in Slots : validation_map[s] = "Validated"

\* C2 restricted to slot counts not above the number of blocks of the drive,
\* for which the planned blocks are distinct.
RoundTripOfDistinctBlocks ==
    (FullRun /\ Genuine /\ NoFailure /\ cli.num_blocks <= num_drive_blocks) =>
        /\ \A k \in DOMAIN spot_blocks :
             disk[spot_blocks[k].num] = spot_blocks[k].num
        /\ \A s \in Slots : validation_map[s] = "Validated"

\* Restoration alone holds for every slot count.
RestoredAfterFullRun ==
    (FullRun /\ NoFailure) => \A p \in DOMAIN disk : disk[p] = p

\* The outcome the original C3 expects at visitation position k.
ExpectedByBoundary(k) ==
    IF spot_blocks[k].num < backing.real THEN "Validated" ELSE "NoStorage"

BoundaryPattern ==
    \A k \in DOMAIN spot_blocks :
        validation_map[spot_blocks[k].idx] = ExpectedByBoundary(k)

\* C3 as claimed: on a counterfeit drive, no operation having failed, the map
\* is Validated at the slots whose block lies below the boundary and
\* NoStorage at the others.  (Stated for slot counts the planner gives
\* distinct blocks for.)
C3_Original ==
    (MapFinal /\ Counterfeit /\ NoFailure /\ cli.num_blocks <= num_drive_blocks)
        => BoundaryPattern

\* The visitation position of the last write to the physical block that the
\* block of position k is stored in.
LastWriter(k) ==
    Largest({j \in DOMAIN spot_blocks :
                Phys(spot_blocks[j].num) = Phys(spot_blocks[k].num)})

\* C3 as amended: on a counterfeit drive, no operation having failed, every
\* slot is Validated or NoStorage, and Validated exactly when its payload
\* equals the payload of the slot that was the last, in visitation order, to
\* write the physical block its own block is stored in.
C3_AliasedOutcome ==
    (MapFinal /\ Counterfeit /\ NoFailure) =>
        \A k \in DOMAIN spot_blocks :
            validation_map[spot_blocks[k].idx] =
                IF random_blocks.data[LastWriter(k)] = random_blocks.data[k]
                THEN "Validated" ELSE "NoStorage"

\* C3, witness: a slot beyond the boundary ends Validated and a slot below
\* it NoStorage.
C3_Witness ==
    /\ MapFinal /\ Counterfeit /\ NoFailure
    /\ cli.num_blocks <= num_drive_blocks
    /\ \E k \in DOMAIN spot_blocks :
         /\ spot_blocks[k].num >= backing.real
         /\ validation_map[spot_blocks[k].idx] = "Validated"
    /\ \E k \in DOMAIN spot_blocks :
         /\ spot_blocks[k].num < backing.real
         /\ validation_map[spot_blocks[k].idx] = "NoStorage"

\* The end offset of the highest sampled block below the boundary, 0 if no
\* sampled block lies below it.
EndOfHighestBelow ==
    LET below == {spot_blocks[k].num : k \in DOMAIN spot_blocks} \cap
                 0..(backing.real - 1)
    IN  IF below = {} THEN 0 ELSE (Largest(below) + 1) * BlockSize

\* C4 as claimed: on a counterfeit drive the validated size is the end offset
\* of the highest sampled block below the boundary, and so at most s.
C4_Original ==
    (MapFinal /\ Counterfeit /\ NoFailure /\ cli.num_blocks <= num_drive_blocks)
        => /\ validated_drive_size = EndOfHighestBelow
           /\ validated_drive_size <= backing.real * BlockSize

\* The slots whose block lies below the boundary are Validated, and the
\* lowest slot whose block lies beyond it is not.
ValidatedUpToBoundary ==
    LET beyond == {s \in Slots : BlockOfSlot(s) >= backing.real}
    IN  /\ \A s \in Slots \ beyond : validation_map[s] = "Validated"
        /\ \A s \in beyond :
               (\A t \in beyond : s <= t) => validation_map[s] # "Validated"

\* C4 as amended: the same, in the runs whose map is Validated at every slot
\* below the boundary and not Validated at the lowest slot beyond it.
C4_SizeUnderBoundaryPattern ==
    (MapFinal /\ Counterfeit /\ NoFailure /\ ValidatedUpToBoundary)
        => /\ validated_drive_size = EndOfHighestBelow
           /\ validated_drive_size <= backing.real * BlockSize

\* C4, witness: such a run, visited in another order than the slots', with
\* sampled blocks on both sides of the boundary.
C4_Witness ==
    /\ MapFinal /\ Counterfeit /\ NoFailure /\ ValidatedUpToBoundary
    /\ \E k \in DOMAIN spot_blocks : spot_blocks[k].idx # k
    /\ \E k \in DOMAIN spot_blocks : spot_blocks[k].num < backing.real
    /\ \E k \in DOMAIN spot_blocks : spot_blocks[k].num >= backing.real

\* C5: in read-only mode no write is ever issued to the drive.  (Stated for
\* slot counts not above the number of blocks of the drive.)
C5_ReadOnlyNeverWrites ==
    (cli.read_only /\ cli.num_blocks <= num_drive_blocks) => NoWriteIssued

\* The length of the run of Validated entries that starts at slot 0.
ValidatedPrefix(vm) ==
    CHOOSE k \in 0..Len0(vm) :
        /\ \A j \in 0..(k - 1) : vm[j] = "Validated"
        /\ k = Len0(vm) \/ vm[k] # "Validated"

\* C6: once the map is final, the validated size is 0 when slot 0 is not
\* Validated, and otherwise the end offset of the planner's block of the last
\* slot of the Validated run that starts at slot 0, which is the highest
\* block of that run; the map printed last is that map.
C6_SizeFromPrefix ==
    MapFinal =>
        LET k == ValidatedPrefix(validation_map)
        IN  /\ validated_drive_size =
                   IF k = 0 THEN 0 ELSE (BlockOfSlot(k - 1) + 1) * BlockSize
            /\ \A j \in 0..(k - 1) : BlockOfSlot(j) <= BlockOfSlot(k - 1)
            /\ printed[Len(printed)] = validation_map

\* C6, witness: a Validated entry follows an entry that is not Validated.
C6_Witness ==
    /\ MapFinal
    /\ \E j, k \in Slots :
         j < k /\ validation_map[j] # "Validated" /\ validation_map[k] = "Validated"

\* C7: once the map is final every slot has had one random write and one
\* read-back, and its outcome is WriteError if the write failed, else
\* ReadError if the read-back failed, else Validated if the content read back
\* is the content written, else NoStorage.
C7_Precedence ==
    MapFinal =>
        \A s \in Slots :
            /\ OneOp("write_random", s)
            /\ OneOp("read_back", s)
            /\ LET w == TheOp("write_random", s)
                   r == TheOp("read_back", s)
               IN  validation_map[s] =
                       IF ~w.ok THEN "WriteError"
                       ELSE IF ~r.ok THEN "ReadError"
                       ELSE IF r.data = w.data THEN "Validated"
                       ELSE "NoStorage"

\* C7, witness: a slot whose write failed and whose read-back succeeded and
\* returned the very content that was to be written.
C7_Witness ==
    /\ MapFinal
    /\ \E s \in Slots :
         /\ ~TheOp("write_random", s).ok
         /\ TheOp("read_back", s).ok
         /\ TheOp("read_back", s).data = TheOp("write_random", s).data

\* The planner has pushed every slot and the list is not yet shuffled.
Planned == pc = "plan" /\ Len0(spot_blocks) = cli.num_blocks

\* C8: for 1 <= N <= blocksPerDevice the planned block numbers are pairwise
\* distinct, each below blocksPerDevice, and that of slot N-1 is
\* blocksPerDevice - 1.
C8_PlannerDistinct ==
    (Planned /\ cli.num_blocks <= num_drive_blocks) =>
        /\ \A k \in Slots : spot_blocks[k].idx = k
        /\ \A k \in Slots :
             spot_blocks[k].num >= 0 /\ spot_blocks[k].num < num_drive_blocks
        /\ \A j, k \in Slots :
             spot_blocks[j].num = spot_blocks[k].num => j = k
        /\ spot_blocks[cli.num_blocks - 1].num = num_drive_blocks - 1

\* C8, witness: 4 slots planned on 6 blocks (two quotients end in .5).
C8_Witness ==
    Planned /\ cli.num_blocks = 4 /\ num_drive_blocks = 6

\* C9: a run on a drive whose size is not a multiple of the block size has
\* ended with an error as soon as it has started, no operation issued.
C9_SizeNotMultipleIsFatal ==
    (pc # "start" /\ drive.size % BlockSize # 0) =>
        pc = "done" /\ result = "err" /\ oplog = << >>

\* C9, witness: such a run in read-only mode without the original reads.
C9_Witness ==
    /\ pc = "done" /\ drive.size % BlockSize # 0
    /\ drive.has_device_info
    /\ cli.read_only /\ cli.no_restore_original

\* C10: once a random write or a read-back has failed the run never ends with
\* an error; when it has ended it returned Ok, every slot has had its random
\* write and its read-back, and its restore write when restoration is on, and
\* the map shows WriteError or ReadError at exactly the slots one of whose
\* two operations failed.
C10_LateFailuresNotFatal ==
    /\ result \notin {"running", "ok"} => ~LateFailure
    /\ (pc = "done" /\ LateFailure) =>
          /\ result = "ok"
          /\ \A s \in Slots :
               /\ OneOp("write_random", s)
               /\ OneOp("read_back", s)
               /\ ~cli.no_restore_original => OneOp("restore", s)
               /\ validation_map[s] \in {"WriteError", "ReadError"} <=>
                      \/ ~TheOp("write_random", s).ok
                      \/ ~TheOp("read_back", s).ok
          /\ printed[Len(printed)] = validation_map

\* C10, witness: the run is over, restoration included; the slot visited
\* first had its random write fail, the other slot had no failure.
C10_Witness ==
    /\ pc = "done" /\ result = "ok" /\ LateFailure
    /\ ~cli.no_restore_original /\ cli.num_blocks = 2
    /\ ~TheOp("write_random", spot_blocks[0].idx).ok
    /\ TheOp("write_random", spot_blocks[1].idx).ok
    /\ TheOp("read_back", spot_blocks[1].idx).ok
    /\ TheOp("restore", spot_blocks[1].idx).ok

\* C11: a step of the restore phase leaves the outcome map, the validated
\* size and what has been presented as they are, whether its write fails or
\* not, and the step that ends the phase ends the run with Ok.
C11_RestoreLeavesMap ==
    [][pc = "restore" =>
          /\ validation_map' = validation_map
          /\ validated_drive_size' = validated_drive_size
          /\ printed' = printed
          /\ pc' = "done" => result' = "ok"]_vars

\* C11, witness: a run has ended after a restoration all of whose writes
\* failed, and its map has a Validated slot.
C11_Witness ==
    /\ FullRun
    /\ cli.num_blocks = 2
    /\ \A s \in Slots : OneOp("restore", s) /\ ~TheOp("restore", s).ok
    /\ \E s \in Slots : validation_map[s] = "Validated"

\* C12: when the original reads are skipped by configuration, the run never
\* enters the original-read or the restore phase, every operation it issues
\* is a random write or a read-back, and every random write precedes every
\* read-back.
C12_SkipOriginalSkipsRestore ==
    cli.no_restore_original =>
        /\ pc \notin {"read_orig", "restore"}
        /\ \A k \in DOMAIN oplog :
               \/ oplog[k].phase = "write_random" /\ oplog[k].op = "write"
               \/ oplog[k].phase = "read_back" /\ oplog[k].op = "read"
        /\ \A j, k \in DOMAIN oplog :
               (oplog[j].phase = "write_random" /\ oplog[k].phase = "read_back")
                   => j < k

\* C12, witness: such a run on a writable drive has ended, two writes and
\* two read-backs issued.
C12_Witness ==
    /\ pc = "done" /\ result = "ok"
    /\ cli.no_restore_original /\ ~cli.read_only
    /\ cli.num_blocks = 2 /\ Len(oplog) = 4

\* The run got past the planner and the shuffle.
PhasesStarted == Len0(validation_map) = cli.num_blocks /\ cli.num_blocks > 0

\* C13: in read-only mode with the original reads enabled the run goes no
\* further than the original-read phase; when it has ended it returned Ok,
\* whether or not reads failed, it issued one original read per slot and
\* nothing else, and it presented one map, which shows ReadError at the
\* slots whose read failed and ReadSuccessful at the others.
C13_ReadOnlyReportsReads ==
    (cli.read_only /\ ~cli.no_restore_original /\ PhasesStarted) =>
        /\ pc \in {"read_orig", "done"}
        /\ pc = "done" =>
             /\ result = "ok"
             /\ \A k \in DOMAIN oplog :
                    oplog[k].phase = "read_orig" /\ oplog[k].op = "read"
             /\ Len(printed) = 1
             /\ printed[1] = validation_map
             /\ \A s \in Slots :
                    /\ OneOp("read_orig", s)
                    /\ printed[1][s] = IF TheOp("read_orig", s).ok
                                       THEN "ReadSuccessful" ELSE "ReadError"

\* C13, witness: such a run has ended, one read having failed, another not.
C13_Witness ==
    /\ pc = "done" /\ result = "ok"
    /\ cli.read_only /\ ~cli.no_restore_original
    /\ \E k \in OpsOf("read_orig") : ~oplog[k].ok
    /\ \E k \in OpsOf("read_orig") : oplog[k].ok

\* C20 as claimed: a read-back is issued only for slots whose random write
\* did not fail.  (Stated for a writable drive and slot counts not above the
\* number of blocks of the drive.)
C20_Original ==
    (~cli.read_only /\ cli.num_blocks <= num_drive_blocks) =>
        \A k \in DOMAIN oplog :
            oplog[k].phase = "read_back" =>
                TheOp("write_random", oplog[k].idx).ok

\* C20 as amended: the read-back phase issues one read per visited position,
\* for the slot of that position, whether or not the random write of the
\* slot failed; a slot whose write failed is WriteError before the phase,
\* and still is when the run has ended, whatever its read-back returned.
C20_ReadBackReadsEverySlot ==
    /\ pc = "read_back" =>
          /\ Cardinality(OpsOf("read_back")) = i
          /\ \A k \in 0..(i - 1) : OneOp("read_back", spot_blocks[k].idx)
          /\ \A k \in DOMAIN spot_blocks :
                 random_blocks.errors[k] = "WriteError" =>
                     validation_map[spot_blocks[k].idx] = "WriteError"
    /\ (pc = "done" /\ MapFinal) =>
          \A s \in Slots :
              /\ OneOp("read_back", s)
              /\ ~TheOp("write_random", s).ok => validation_map[s] = "WriteError"

\* C20, witness: on a writable drive a slot whose random write failed has
\* had a read-back, which succeeded, and the run has ended.
C20_Witness ==
    /\ pc = "done" /\ MapFinal /\ ~cli.read_only
    /\ cli.num_blocks <= num_drive_blocks
    /\ \E s \in Slots :
         /\ ~TheOp("write_random", s).ok
         /\ OneOp("read_back", s)
         /\ TheOp("read_back", s).ok

\* The path is a block device whose geometry can be queried and reports
\* another size than the seek to the end at open time.
SizeMismatch ==
    /\ sys.openable /\ sys.from_file = "block"
    /\ sys.query_fail \notin {"logical", "physical", "count"}
    /\ sys.geometry_size # get_size(drive)

\* C18: on such a path the run has ended with an error as soon as it has
\* started: its one call of get_device_info returned an error and no read
\* or write has been issued.
C18_SizeMismatchIsFatal ==
    (pc # "start" /\ SizeMismatch) =>
        /\ pc = "done" /\ result = "err"
        /\ oplog = << >>
        /\ Len(calls) = 1
        /\ calls[1].op = "get_device_info" /\ ~calls[1].ok

\* C18, witness: such a run on a writable drive whose size is a multiple of
\* the block size.
C18_Witness ==
    /\ pc = "done" /\ SizeMismatch
    /\ ~cli.read_only
    /\ get_size(drive) > 0 /\ get_size(drive) % BlockSize = 0

\* C14: a buffer created with alignment 0 has start_offset 0; one created
\* with an alignment above 0 has a start_offset below the alignment that
\* makes the address of its first block a multiple of the alignment, and
\* its blocks lie within the allocation.
C14_StartOffsetAligns ==
    buf.made =>
        /\ buf.mem_align = 0 => buf.start_offset = 0
        /\ buf.mem_align > 0 =>
             /\ (buf.base + buf.start_offset) % buf.mem_align = 0
             /\ buf.start_offset >= 0 /\ buf.start_offset < buf.mem_align
        /\ block_offset(buf, buf.num_blocks) <= buf.len

\* C14, witness: a buffer with alignment 4096 allocated at an address that
\* is no multiple of 512.
C14_Witness ==
    /\ buf.made
    /\ buf.mem_align = 4096
    /\ buf.base % 512 # 0

\* A transfer is aligned when the address and the length of the slice and
\* the offset on the drive are multiples of the alignment.
Aligned(t) ==
    /\ t.addr % buf.mem_align = 0
    /\ t.len % buf.mem_align = 0
    /\ t.offset % buf.mem_align = 0

\* C15: when the alignment is above 0, every slice handed to the drive and
\* the offset it goes to are aligned.
C15_EveryTransferAligned ==
    buf.mem_align > 0 => \A k \in DOMAIN io : Aligned(io[k])

\* C15 holds when the block size is a multiple of the alignment.
TransfersAlignedForBlockMultiples ==
    (buf.mem_align > 0 /\ buf.block_size % buf.mem_align = 0) =>
        \A k \in DOMAIN io : Aligned(io[k])

\* The calls of get_device_info.
InfoCalls == {k \in DOMAIN calls : calls[k].op = "get_device_info"}

\* C16 as claimed: of the calls of get_device_info on one handle at most one
\* runs the discovery.
C16_Original ==
    Cardinality({k \in InfoCalls : calls[k].discovered}) <= 1

\* C16 as amended: a call of get_device_info runs the discovery exactly when
\* no earlier call on the handle returned Ok; a call after one that returned
\* Ok returns Ok with the same DeviceInfo.
C16_DiscoveryUntilSuccess ==
    \A k \in InfoCalls :
        LET earlier_ok == {j \in InfoCalls : j < k /\ calls[j].ok}
        IN  /\ calls[k].discovered <=> earlier_ok = {}
            /\ \A j \in earlier_ok :
                  calls[k].ok /\ calls[k].info = calls[j].info

\* C16, witness: on a USB disk a call that found the device is followed,
\* after a call of another query, by a call that did not run the discovery.
C16_Witness ==
    \E j, k \in InfoCalls :
        /\ j + 1 < k
        /\ calls[j].ok /\ calls[j].discovered
        /\ calls[j].info.usb_driver # << >>
        /\ ~calls[k].discovered

\* The path is a block device whose block sizes can be queried.
BlockSizesKnown ==
    /\ sys.from_file = "block"
    /\ sys.query_fail \notin {"logical", "physical"}

\* C17: every call of get_memory_alignment on an open handle returns the
\* larger of the two block sizes when the path is a block device (whose
\* block sizes can be queried), and 0 when it is not a block device.
C17_AlignmentAfterOpen ==
    \A k \in DOMAIN calls :
        calls[k].op = "get_memory_alignment" =>
            /\ BlockSizesKnown =>
                  calls[k].value = max(sys.logical, sys.physical)
            /\ sys.from_file = "invalid_input" => calls[k].value = 0

\* C17 holds for the calls that follow a call of get_device_info.
AlignmentOnceIdentified ==
    \A k \in DOMAIN calls :
        (calls[k].op = "get_memory_alignment" /\ \E j \in InfoCalls : j < k) =>
            /\ BlockSizesKnown =>
                  calls[k].value = max(sys.logical, sys.physical)
            /\ sys.from_file = "invalid_input" => calls[k].value = 0

\* The discovery gets as far as the attribute files.
AttributesRead ==
    /\ sys.from_file = "block"
    /\ sys.query_fail = "none"
    /\ sys.geometry_size = get_size(drive)

\* C19: a call of get_device_info whose discovery reads an attribute file
\* that is there and cannot be read returns an error.
C19_UnreadableIsFatal ==
    (AttributesRead /\ \E a \in AttrFiles : sys.attr[a].state = "unreadable") =>
        \A k \in InfoCalls : calls[k].discovered => ~calls[k].ok

\* An absent attribute file is not an error and gives the empty string.
AbsentIsEmpty ==
    (AttributesRead /\ sys.attr["vendor"].state = "absent") =>
        \A k \in InfoCalls : calls[k].ok => calls[k].info.vendor = << >>

\* C21 as claimed: the end of the block planned for slot k does not exceed
\* the end of region k, (k+1) * blocksPerDevice / N, and the end of the next
\* block does.  (Stated for slot counts not above the number of blocks.)
C21_Original ==
    (pc = "plan" /\ cli.num_blocks <= num_drive_blocks) =>
        \A k \in DOMAIN spot_blocks :
            /\ (spot_blocks[k].num + 1) * cli.num_blocks
                   <= (k + 1) * num_drive_blocks
            /\ (spot_blocks[k].num + 2) * cli.num_blocks
                   > (k + 1) * num_drive_blocks

\* C21 as amended: the end of the block planned for slot k is the integer
\* nearest to the end of region k, the upper one of the two when the region
\* ends half-way through a block; so it lies less than half a block before
\* the region's end or at most half a block after it.  (The end is the
\* block number plus 1 in u64 arithmetic, 0 for the number 2^64-1.)
C21_NearestToRegionEnd ==
    pc = "plan" =>
        \A k \in DOMAIN spot_blocks :
            /\ 2 * cli.num_blocks * (spot_blocks[k].num + 1)
                   > 2 * (k + 1) * num_drive_blocks - cli.num_blocks
            /\ 2 * cli.num_blocks * (spot_blocks[k].num + 1)
                   <= 2 * (k + 1) * num_drive_blocks + cli.num_blocks

\* C21, witness: with slot counts not above the number of blocks, a planned
\* block ends after the end of its region and another one before.
C21_Witness ==
    /\ Planned /\ cli.num_blocks <= num_drive_blocks
    /\ \E k \in DOMAIN spot_blocks :
         (spot_blocks[k].num + 1) * cli.num_blocks > (k + 1) * num_drive_blocks
    /\ \E k \in DOMAIN spot_blocks :
         (spot_blocks[k].num + 1) * cli.num_blocks < (k + 1) * num_drive_blocks

\* C27: every planned block number lies in 0..blocksPerDevice-1 and the
\* planner does not panic, for every slot count and number of blocks from 1.
C27_PlannedInRange ==
    /\ result # "panic"
    /\ pc = "plan" =>
          \A k \in DOMAIN spot_blocks :
              spot_blocks[k].num >= 0 /\ spot_blocks[k].num < num_drive_blocks

\* C27 holds for slot counts up to twice the number of blocks.
PlannedInRangeUpToTwice ==
    cli.num_blocks <= 2 * num_drive_blocks =>
        /\ result # "panic"
        /\ pc = "plan" =>
              \A k \in DOMAIN spot_blocks :
                  spot_blocks[k].num >= 0 /\ spot_blocks[k].num < num_drive_blocks

\* a < b as u64 values, Wrapped standing for 2^64 - 1.
LessU64(a, b) == a # Wrapped /\ (b = Wrapped \/ a < b)

\* The list has been shuffled and the map created.
Shuffled == pc \notin {"start", "plan"} /\ Len0(validation_map) > 0

\* The entry pairs a slot with the block the planner computes for that slot:
\* the block whose end is the integer nearest to the end of the slot's region.
PairedAsPlanned(e) ==
    /\ 2 * cli.num_blocks * (e.num + 1)
           > 2 * (e.idx + 1) * num_drive_blocks - cli.num_blocks
    /\ 2 * cli.num_blocks * (e.num + 1)
           <= 2 * (e.idx + 1) * num_drive_blocks + cli.num_blocks

\* After the shuffle every slot appears exactly once in the list, paired with
\* its planned block; every operation is issued on the block of such a pair;
\* and a failed write or read-back shows at the slot of its pair.
PairingKept ==
    Shuffled =>
        /\ \A s \in Slots :
               Cardinality({k \in DOMAIN spot_blocks : spot_blocks[k].idx = s}) = 1
        /\ \A k \in DOMAIN spot_blocks : PairedAsPlanned(spot_blocks[k])
        /\ \A k \in DOMAIN oplog :
               \E j \in DOMAIN spot_blocks :
                   /\ spot_blocks[j].idx = oplog[k].idx
                   /\ spot_blocks[j].num = oplog[k].num
        /\ MapFinal =>
               \A k \in DOMAIN oplog :
                   /\ (oplog[k].phase = "write_random" /\ ~oplog[k].ok)
                          => validation_map[oplog[k].idx] = "WriteError"
                   /\ (oplog[k].phase = "read_back" /\ ~oplog[k].ok)
                          => validation_map[oplog[k].idx] \in {"WriteError", "ReadError"}

\* C22: before the shuffle the block numbers are strictly increasing in the
\* slot; the shuffle only permutes the visitation order, every slot keeping
\* its block; every outcome is recorded at the slot of the block operated on.
C22_PairingInvariant ==
    /\ pc = "plan" =>
           \A j, k \in DOMAIN spot_blocks :
               j < k => LessU64(spot_blocks[j].num, spot_blocks[k].num)
    /\ PairingKept

\* Before the shuffle the block numbers are strictly increasing in the slot
\* when the slot count does not exceed the number of blocks.
IncreasingUpToBlocks ==
    (pc = "plan" /\ cli.num_blocks <= num_drive_blocks) =>
        \A j, k \in DOMAIN spot_blocks :
            j < k => LessU64(spot_blocks[j].num, spot_blocks[k].num)

\* The levels of the path bound to a USB storage driver.
UsbMatches ==
    {k \in DOMAIN sys.levels :
        sys.levels[k].subsystem = "usb"
        /\ sys.levels[k].driver \in {"uas", "usb-storage"}}

\* Those of them whose parent directory has a vendor-ID file.
UsbStops ==
    {k \in UsbMatches :
        k < Len(sys.levels) /\ sys.levels[k + 1].files["idVendor"].state # "absent"}

\* The smallest element of a non-empty set of integers.
Smallest(S) == CHOOSE x \in S : \A y \in S : x <= y

\* The discovery gets as far as the walk for the USB descriptors.
UsbWalkRuns ==
    /\ AttributesRead
    /\ sys.canonical
    /\ \A k \in DOMAIN sys.levels : sys.levels[k].subsystem # "?"
    /\ \E k \in DOMAIN sys.levels : sys.levels[k].subsystem = "usb"

\* No level from the device up to level m is in the subsystem usb with a
\* driver link that cannot be read.
DriversReadableUpTo(m) ==
    \A k \in 1..m :
        ~(sys.levels[k].subsystem = "usb" /\ sys.levels[k].driver = "?")

\* The USB descriptor fields of a DeviceInfo, by the file each is read from.
UsbDescriptors(info) ==
    [f \in UsbFiles |->
        CASE f = "idVendor" -> info.usb_vendor_id
          [] f = "idProduct" -> info.usb_product_id
          [] f = "manufacturer" -> info.usb_manufacturer
          [] f = "product" -> info.usb_product
          [] f = "serial" -> info.usb_serial_number
          [] f = "version" -> info.usb_version
          [] f = "speed" -> info.usb_speed]

\* The content of the files of the parent of level m, empty for each file
\* that is absent or cannot be read.
ParentDescriptors(m) ==
    [f \in UsbFiles |->
        IF m < Len(sys.levels) /\ sys.levels[m + 1].files[f].state = "present"
        THEN <<"x">> ELSE << >>]

NoDescriptors == [f \in UsbFiles |-> << >>]

PhaseRank(phase) ==
    CASE phase = "read_orig" -> 1
      [] phase = "write_random" -> 2
      [] phase = "read_back" -> 3
      [] phase = "restore" -> 4

\* C24: the operations of the run come phase after phase, original reads,
\* then random writes, then read-backs, then restore writes, and the n-th
\* operation of each phase is issued for the n-th entry of the shuffled list.
C24_PhasesInOrder ==
    \A k \in DOMAIN oplog :
        /\ k > 1 => PhaseRank(oplog[k - 1].phase) <= PhaseRank(oplog[k].phase)
        /\ LET n == Cardinality({j \in 1..(k - 1) : oplog[j].phase = oplog[k].phase})
           IN  /\ oplog[k].idx = spot_blocks[n].idx
               /\ oplog[k].num = spot_blocks[n].num

\* C24, witness: a run through the four phases that visited slot 1 first.
C24_Witness ==
    /\ FullRun
    /\ cli.num_blocks = 2
    /\ spot_blocks[0].idx = 1
    /\ Len(oplog) = 8
    /\ oplog[1].phase = "read_orig" /\ oplog[1].idx = 1
    /\ oplog[8].phase = "restore" /\ oplog[8].idx = 0

\* C25: on a counterfeit drive that redirects the blocks beyond its real
\* capacity into its real region, a run with restoration in which no
\* operation failed leaves every physical block of the real region with the
\* content it had before the test.
C25_CounterfeitRestored ==
    (FullRun /\ Counterfeit /\ NoFailure) =>
        \A p \in DOMAIN disk : disk[p] = p

\* C25, witness: such a run on which two slots were redirected to the same
\* physical block, the slot visited last being slot 0, and the random data
\* written there differed from the original content.
C25_Witness ==
    /\ FullRun /\ Counterfeit /\ NoFailure
    /\ spot_blocks[0].idx # 0
    /\ \E j, k \in DOMAIN spot_blocks :
         /\ j < k
         /\ Phys(spot_blocks[j].num) = Phys(spot_blocks[k].num)
         /\ \E w \in OpsOf("write_random") :
              /\ oplog[w].idx = spot_blocks[k].idx
              /\ oplog[w].data # Phys(spot_blocks[k].num)
    /\ \A p \in DOMAIN disk : disk[p] = p

\* C26: no map that is presented has an Unknown entry or lacks a slot: the
\* map after the original-read phase, which is the one presented when the
\* run ends there, has only ReadError and ReadSuccessful; the map after the
\* read-back, presented then, has only Validated, NoStorage, WriteError and
\* ReadError, with or without the original-read phase.
C26_NoUnknownPresented ==
    /\ \A k \in DOMAIN printed :
           /\ DOMAIN printed[k] = Slots
           /\ \A s \in Slots : printed[k][s] # "Unknown"
    /\ (pc = "generate" /\ ~cli.no_restore_original) =>
           \A s \in Slots : validation_map[s] \in {"ReadError", "ReadSuccessful"}
    /\ (pc = "done" /\ ~MapFinal) =>
           \A k \in DOMAIN printed :
               \A s \in Slots : printed[k][s] \in {"ReadError", "ReadSuccessful"}
    /\ MapFinal =>
           /\ printed = <<validation_map>>
           /\ \A s \in Slots :
                  validation_map[s] \in
                      {"Validated", "NoStorage", "WriteError", "ReadError"}

\* C26, witness: a run without the original-read phase that presented a map
\* of two slots, one Validated and one NoStorage.
C26_Witness ==
    /\ pc = "done" /\ result = "ok"
    /\ cli.no_restore_original
    /\ Len(printed) = 1
    /\ \E s, t \in Slots :
         printed[1][s] = "Validated" /\ printed[1][t] = "NoStorage"

\* The operations of a kind issued so far.
OpsOfKind(kind) == {k \in DOMAIN oplog : oplog[k].op = kind}

\* Each phase has issued at most one operation per slot, so at most 2N reads
\* and 2N writes have been issued, and a run that is over ended with success,
\* with a fatal error, or with the panic of the planner.
OperationsBounded ==
    /\ \A j, k \in DOMAIN oplog :
           (oplog[j].phase = oplog[k].phase /\ oplog[j].idx = oplog[k].idx) => j = k
    /\ Cardinality(OpsOfKind("read")) <= 2 * cli.num_blocks
    /\ Cardinality(OpsOfKind("write")) <= 2 * cli.num_blocks
    /\ pc = "done" => result \in {"ok", "err", "panic"}

\* C28: every run terminates, whichever operations fail, having issued at
\* most one operation per slot in each phase, hence at most 2N reads and 2N
\* writes (the log of operations only grows, so the bound at the end of the
\* run bounds the whole run).
C28_EveryRunTerminates == <>(pc = "done" /\ OperationsBounded)

\* C28, witness: a run of two slots that is over after 4 reads and 4 writes,
\* two of which failed.
C28_Witness ==
    /\ pc = "done"
    /\ cli.num_blocks = 2
    /\ Cardinality(OpsOfKind("read")) = 4
    /\ Cardinality(OpsOfKind("write")) = 4
    /\ Cardinality({k \in DOMAIN oplog : ~oplog[k].ok}) = 2

====
